---- MODULE Spec2Model ----
(***************************************************************************)
(* Node binding of the convert_case engine (src/src/lib.rs).               *)
(*                                                                         *)
(* The four exported functions toCase, isCase, mutate and listFrom are     *)
(* modelled from lib.rs.  The engine they call (the convert_case crate:    *)
(* Boundary, Pattern, Case, Converter, Casing) is a dependency whose source *)
(* is not in this repository; it is modelled from sections 3 and 4 of the  *)
(* specification.                                                          *)
(*                                                                         *)
(* A string is a sequence of one-character strings.  A JavaScript value is *)
(* a record [t, n, s, a]: its type tag, and its number, string or array    *)
(* payload.                                                                *)
(***************************************************************************)
EXTENDS Integers, Sequences, FiniteSets, TLC

VARIABLES pc, call, result, conv, words, first, prior

vars == <<pc, call, result, conv, words, first, prior>>

(***************************************************************************)
(* Bounds of the model.                                                    *)
(***************************************************************************)
\* longest input string of a toCase / isCase / listFrom call
MaxLen == 3
\* longest input string of a mutate call
MaxMutLen == 4
\* longest boundaries array of a mutate call
MaxBounds == 2
\* longest input string of the calls made with codes outside the enums
MaxCodeLen == 2
\* longest input string of the calls made in sequence
MaxSeqLen == 2

(***************************************************************************)
(* Characters.                                                             *)
(***************************************************************************)
LowerChars == {"a", "b"}
UpperChars == {"A", "B"}
DigitChars == {"1"}
Alphabet == {"a", "b", "A", "1", "-", "_", " "}
SegAlphabet == {"a", "A", "1", "-"}

is_lowercase(ch) == ch \in LowerChars
is_uppercase(ch) == ch \in UpperChars
is_digit(ch) == ch \in DigitChars
is_letter(ch) == is_lowercase(ch) \/ is_uppercase(ch)

to_uppercase_char(ch) == CASE ch = "a" -> "A" [] ch = "b" -> "B" [] OTHER -> ch
to_lowercase_char(ch) == CASE ch = "A" -> "a" [] ch = "B" -> "b" [] OTHER -> ch

to_uppercase(w) == [i \in 1..Len(w) |-> to_uppercase_char(w[i])]
to_lowercase(w) == [i \in 1..Len(w) |-> to_lowercase_char(w[i])]
capitalize(w) == [i \in 1..Len(w) |->
                    IF i = 1 THEN to_uppercase_char(w[i]) ELSE to_lowercase_char(w[i])]

StringsUpTo(A, n) == UNION {[1..k -> A] : k \in 0..n}

(***************************************************************************)
(* Boundary: the kinds, in the order of their integer codes (code = index  *)
(* - 1).                                                                   *)
(***************************************************************************)
BoundaryKinds ==
    <<"Hyphen", "Underscore", "Space", "LowerUpper", "Acronym", "DigitLetter", "LetterDigit">>
NumBoundaries == Len(BoundaryKinds)
Boundary_all == {BoundaryKinds[i] : i \in 1..NumBoundaries}
BoundaryOfCode(n) == BoundaryKinds[n + 1]
CodeOfBoundary(b) == (CHOOSE i \in 1..NumBoundaries : BoundaryKinds[i] = b) - 1

DelimChar(b) ==
    CASE b = "Hyphen" -> "-" [] b = "Underscore" -> "_" [] b = "Space" -> " " [] OTHER -> ""

\* an active delimiter boundary consumes ch
IsActiveDelim(ch, B) == \E b \in B : DelimChar(b) # "" /\ DelimChar(b) = ch

\* boundary kind b cuts immediately before position i of s (delimiters apart)
FiresAt(b, s, i) ==
    /\ i > 1
    /\ i <= Len(s)
    /\ CASE b = "Acronym" ->
               /\ is_uppercase(s[i - 1])
               /\ is_uppercase(s[i])
               /\ i + 1 <= Len(s)
               /\ is_lowercase(s[i + 1])
         [] b = "LowerUpper" -> is_lowercase(s[i - 1]) /\ is_uppercase(s[i])
         [] b = "DigitLetter" -> is_digit(s[i - 1]) /\ is_letter(s[i])
         [] b = "LetterDigit" -> is_letter(s[i - 1]) /\ is_digit(s[i])
         [] OTHER -> FALSE

\* precedence among the kinds that cut at one position: acronym, lower-upper, digit
Fires(s, i, B) ==
    \/ "Acronym" \in B /\ FiresAt("Acronym", s, i)
    \/ "LowerUpper" \in B /\ FiresAt("LowerUpper", s, i)
    \/ "DigitLetter" \in B /\ FiresAt("DigitLetter", s, i)
    \/ "LetterDigit" \in B /\ FiresAt("LetterDigit", s, i)

Occurs(b, s) ==
    IF DelimChar(b) # ""
    THEN \E i \in 1..Len(s) : s[i] = DelimChar(b)
    ELSE \E i \in 1..Len(s) : FiresAt(b, s, i)

\* Boundary::list_from: the kinds whose trigger occurs in s, in code order
list_from(s) == SelectSeq(BoundaryKinds, LAMBDA b : Occurs(b, s))

(***************************************************************************)
(* Segmenter: one left-to-right pass; cur is the fragment being built, acc *)
(* the fragments closed so far.                                            *)
(***************************************************************************)
RECURSIVE SegFrom(_, _, _, _, _)
SegFrom(s, B, i, cur, acc) ==
    IF i > Len(s)
    THEN IF cur = <<>> THEN acc ELSE Append(acc, cur)
    ELSE IF IsActiveDelim(s[i], B)
         THEN SegFrom(s, B, i + 1, <<>>, IF cur = <<>> THEN acc ELSE Append(acc, cur))
         ELSE IF cur # <<>> /\ Fires(s, i, B)
              THEN SegFrom(s, B, i + 1, <<s[i]>>, Append(acc, cur))
              ELSE SegFrom(s, B, i + 1, Append(cur, s[i]), acc)

\* a segmenter that closes a fragment at every delimiter, empty or not
RECURSIVE SegKeepEmpty(_, _, _, _, _)
SegKeepEmpty(s, B, i, cur, acc) ==
    IF i > Len(s)
    THEN Append(acc, cur)
    ELSE IF IsActiveDelim(s[i], B)
         THEN SegKeepEmpty(s, B, i + 1, <<>>, Append(acc, cur))
         ELSE IF cur # <<>> /\ Fires(s, i, B)
              THEN SegKeepEmpty(s, B, i + 1, <<s[i]>>, Append(acc, cur))
              ELSE SegKeepEmpty(s, B, i + 1, Append(cur, s[i]), acc)
segment_keep_empty(s, B) == SegKeepEmpty(s, B, 1, <<>>, <<>>)

segment(s, B) == SegFrom(s, B, 1, <<>>, <<>>)

(***************************************************************************)
(* Pattern: the kinds in code order, and the per-position transform.       *)
(***************************************************************************)
PatternKinds == <<"Lowercase", "Uppercase", "Capital", "Sentence", "Camel", "Alternating">>
NumPatterns == Len(PatternKinds)
PatternOfCode(n) == PatternKinds[n + 1]

\* "None": no pattern set, the fragments are joined as they are
pattern_apply(p, ws) ==
    [i \in 1..Len(ws) |->
        CASE p = "Lowercase" -> to_lowercase(ws[i])
          [] p = "Uppercase" -> to_uppercase(ws[i])
          [] p = "Capital" -> capitalize(ws[i])
          [] p = "Sentence" -> IF i = 1 THEN capitalize(ws[i]) ELSE to_lowercase(ws[i])
          [] p = "Camel" -> IF i = 1 THEN to_lowercase(ws[i]) ELSE capitalize(ws[i])
          [] p = "Alternating" ->
                 IF i % 2 = 1 THEN to_lowercase(ws[i]) ELSE to_uppercase(ws[i])
          [] OTHER -> ws[i]]

RECURSIVE JoinFrom(_, _, _)
JoinFrom(ws, d, i) ==
    IF i > Len(ws) THEN <<>>
    ELSE IF i = Len(ws) THEN ws[i]
    ELSE ws[i] \o d \o JoinFrom(ws, d, i + 1)

join(ws, d) == JoinFrom(ws, d, 1)

(***************************************************************************)
(* Case: the preset table, in code order.                                  *)
(***************************************************************************)
CaseKinds == <<"Camel", "Pascal", "Snake", "Kebab", "Title", "Sentence">>
NumCases == Len(CaseKinds)
CaseOfCode(n) == CaseKinds[n + 1]

CaseShift == {"LowerUpper", "Acronym", "DigitLetter", "LetterDigit"}

Case_boundaries(c) ==
    CASE c = "Snake" -> {"Underscore"}
      [] c = "Kebab" -> {"Hyphen"}
      [] c = "Title" -> {"Space"}
      [] c = "Sentence" -> {"Space"}
      [] OTHER -> CaseShift

Case_pattern(c) ==
    CASE c = "Camel" -> "Camel"
      [] c = "Pascal" -> "Capital"
      [] c = "Snake" -> "Lowercase"
      [] c = "Kebab" -> "Lowercase"
      [] c = "Title" -> "Capital"
      [] c = "Sentence" -> "Sentence"

Case_delim(c) ==
    CASE c = "Snake" -> <<"_">>
      [] c = "Kebab" -> <<"-">>
      [] c = "Title" -> <<" ">>
      [] c = "Sentence" -> <<" ">>
      [] OTHER -> <<>>

(***************************************************************************)
(* Converter: the configuration a call builds and consumes.                *)
(***************************************************************************)
Converter_new ==
    [boundaries |-> Boundary_all, pattern |-> "None", delim |-> <<>>, from |-> "None"]

from_case(cv, c) == [cv EXCEPT !.from = c]
to_case(cv, c) == [cv EXCEPT !.pattern = Case_pattern(c), !.delim = Case_delim(c)]
set_delim(cv, d) == [cv EXCEPT !.delim = d]
set_pattern(cv, p) == [cv EXCEPT !.pattern = p]
add_boundary(cv, b) == [cv EXCEPT !.boundaries = @ \cup {b}]
remove_boundaries(cv, bs) == [cv EXCEPT !.boundaries = @ \ bs]

\* step (a) of convert: the boundary set the segmentation uses
effective_boundaries(cv) ==
    IF cv.from # "None" THEN Case_boundaries(cv.from) ELSE cv.boundaries

convert_words(cv, s) == segment(s, effective_boundaries(cv))
convert(cv, s) == join(pattern_apply(cv.pattern, convert_words(cv, s)), cv.delim)

\* Classifier: converting s to case c, segmenting s as it stands, changes nothing
is_case(s, c) == convert(to_case(Converter_new, c), s) = s

(***************************************************************************)
(* JavaScript values and the outcomes of a call.                           *)
(***************************************************************************)
JsUndefined == [t |-> "undefined", n |-> 0, s |-> <<>>, a |-> <<>>]
JsNum(k) == [t |-> "number", n |-> k, s |-> <<>>, a |-> <<>>]
JsStr(str) == [t |-> "string", n |-> 0, s |-> str, a |-> <<>>]
JsArr(elems) == [t |-> "array", n |-> 0, s |-> <<>>, a |-> elems]
\* the elements of an array: numbers, or a value that is no number
ElemNum(k) == [t |-> "number", n |-> k]
ElemOther == [t |-> "string", n |-> 0]

RString(str) == [kind |-> "string", str |-> str, flag |-> FALSE, ids |-> <<>>]
RBool(b) == [kind |-> "boolean", str |-> <<>>, flag |-> b, ids |-> <<>>]
RArray(ids) == [kind |-> "array", str |-> <<>>, flag |-> FALSE, ids |-> ids]
\* a Rust panic (unwrap of a failed downcast), surfaced as a thrown exception
RPanic == [kind |-> "panic", str |-> <<>>, flag |-> FALSE, ids |-> <<>>]
\* undefined behaviour ending the process or branching into unrelated code
RTrap == [kind |-> "trap", str |-> <<>>, flag |-> FALSE, ids |-> <<>>]
\* the rejection the specification asks for; no line of lib.rs produces it
RInvalidEnumCode == [kind |-> "InvalidEnumCode", str |-> <<>>, flag |-> FALSE, ids |-> <<>>]
RNone == [kind |-> "none", str |-> <<>>, flag |-> FALSE, ids |-> <<>>]

\* no configuration was built
NoConv == [boundaries |-> {}, pattern |-> "Unbuilt", delim |-> <<>>, from |-> "None"]
Outcome(r, cv, ws) == [res |-> r, conv |-> cv, words |-> ws]
\* in place of a configuration: the call trapped, or panicked, while building it
CvTrap == [NoConv EXCEPT !.pattern = "Trap"]
CvPanic == [NoConv EXCEPT !.pattern = "Panic"]
TrapOutcome == Outcome(RTrap, NoConv, <<>>)
PanicOutcome == Outcome(RPanic, NoConv, <<>>)

(***************************************************************************)
(* Number to enum: `value as u8` saturates, transmute reinterprets the     *)
(* byte.  A byte that is no member of the enum is undefined behaviour: the *)
(* build may treat it as any member, or trap.                              *)
(***************************************************************************)
Trap == -1
\* in place of an enum value: the optional argument is no number
Absent == -2
as_u8(x) == IF x < 0 THEN 0 ELSE IF x > 255 THEN 255 ELSE x
transmute(byte, nmembers) ==
    IF byte < nmembers THEN {byte} ELSE (0..(nmembers - 1)) \cup {Trap}

(***************************************************************************)
(* toCase                                                                  *)
(***************************************************************************)
\* a binding that never calls from_case
CaseConvertIgnoringFrom(str, c, f) ==
    LET cv2 == to_case(Converter_new, c)
    IN  Outcome(RString(convert(cv2, str)), cv2, convert_words(cv2, str))

CaseConvertWith(str, c, f) ==
    LET cv0 == Converter_new
        cv1 == IF f = "None" THEN cv0 ELSE from_case(cv0, f)
        cv2 == to_case(cv1, c)
    IN  Outcome(RString(convert(cv2, str)), cv2, convert_words(cv2, str))

\* a binding without the is_a guard of line 13: a missing fromCase reads as NaN, as u8 0
js_case_convert_unguarded(str, jcase, jfrom) ==
    LET cs == transmute(as_u8(jcase.n), NumCases)
        fs == transmute(as_u8(IF jfrom.t = "number" THEN jfrom.n ELSE 0), NumCases)
    IN  {IF c = Trap \/ f = Trap
         THEN TrapOutcome
         ELSE CaseConvertWith(str, CaseOfCode(c), CaseOfCode(f))
         : c \in cs, f \in fs}

js_case_convert(str, jcase, jfrom) ==
    LET cs == transmute(as_u8(jcase.n), NumCases)
        fs == IF jfrom.t = "number" THEN transmute(as_u8(jfrom.n), NumCases) ELSE {Absent}
    IN  {IF c = Trap \/ f = Trap
         THEN TrapOutcome
         ELSE CaseConvertWith(str, CaseOfCode(c), IF f = Absent THEN "None" ELSE CaseOfCode(f))
         : c \in cs, f \in fs}

(***************************************************************************)
(* isCase                                                                  *)
(***************************************************************************)
\* a classifier call that segments with the case's own boundary set
js_is_case_own_boundaries(str, jcase) ==
    {IF c = Trap
     THEN TrapOutcome
     ELSE LET cv == from_case(to_case(Converter_new, CaseOfCode(c)), CaseOfCode(c))
          IN  Outcome(RBool(convert(cv, str) = str), cv, convert_words(cv, str))
     : c \in transmute(as_u8(jcase.n), NumCases)}

\* a binding that takes the case codes as starting at 1
js_is_case_off_by_one(str, jcase) ==
    {IF c = Trap \/ c = 0
     THEN TrapOutcome
     ELSE Outcome(RBool(is_case(str, CaseOfCode(c - 1))), to_case(Converter_new, CaseOfCode(c - 1)),
                  convert_words(to_case(Converter_new, CaseOfCode(c - 1)), str))
     : c \in transmute(as_u8(jcase.n), NumCases)}

js_is_case(str, jcase) ==
    {IF c = Trap
     THEN TrapOutcome
     ELSE Outcome(RBool(is_case(str, CaseOfCode(c))), to_case(Converter_new, CaseOfCode(c)),
                  convert_words(to_case(Converter_new, CaseOfCode(c)), str))
     : c \in transmute(as_u8(jcase.n), NumCases)}

(***************************************************************************)
(* mutate                                                                  *)
(***************************************************************************)
\* a loop that stops one element early
RECURSIVE AddBoundariesSkipLast(_, _, _)
AddBoundariesSkipLast(cvs, elems, i) ==
    IF i >= Len(elems) THEN cvs
    ELSE IF elems[i].t # "number" THEN {CvPanic}
    ELSE LET bs == transmute(as_u8(elems[i].n), NumBoundaries)
             next == {add_boundary(cv, BoundaryOfCode(b)) : cv \in cvs, b \in bs \ {Trap}}
             rest == AddBoundariesSkipLast(next, elems, i + 1)
         IN  IF Trap \in bs THEN rest \cup {CvTrap} ELSE rest

\* the loop of lines 58-61 from element i on; cvs: the configurations so far
RECURSIVE AddBoundaries(_, _, _)
AddBoundaries(cvs, elems, i) ==
    IF i > Len(elems) THEN cvs
    ELSE IF elems[i].t # "number" THEN {CvPanic}
    ELSE LET bs == transmute(as_u8(elems[i].n), NumBoundaries)
             next == {add_boundary(cv, BoundaryOfCode(b)) : cv \in cvs, b \in bs \ {Trap}}
             rest == AddBoundaries(next, elems, i + 1)
         IN  IF Trap \in bs THEN rest \cup {CvTrap} ELSE rest

MutateDelim(cv, jdelim) == IF jdelim.t = "string" THEN set_delim(cv, jdelim.s) ELSE cv

\* a binding without the is_a guard of line 47: downcast_or_throw throws on a missing field
MutatePatternUnguarded(cv, jpattern) ==
    IF jpattern.t = "number"
    THEN {IF p = Trap THEN CvTrap ELSE set_pattern(cv, PatternOfCode(p))
          : p \in transmute(as_u8(jpattern.n), NumPatterns)}
    ELSE {CvPanic}

MutatePattern(cv, jpattern) ==
    IF jpattern.t = "number"
    THEN {IF p = Trap THEN CvTrap ELSE set_pattern(cv, PatternOfCode(p))
          : p \in transmute(as_u8(jpattern.n), NumPatterns)}
    ELSE {cv}

\* a binding without the remove_boundaries call of line 56
MutateBoundariesAdditive(cvs, jboundaries) ==
    IF jboundaries.t = "array" THEN AddBoundaries(cvs, jboundaries.a, 1) ELSE cvs

MutateBoundaries(cvs, jboundaries) ==
    IF jboundaries.t = "array"
    THEN AddBoundaries({remove_boundaries(cv, Boundary_all) : cv \in cvs}, jboundaries.a, 1)
    ELSE cvs

\* lines 39-64, on the configuration cv0 that line 37 made
MutateFrom(cv0, str, options) ==
    LET cv1 == MutateDelim(cv0, options.delim)
        cv2s == MutatePattern(cv1, options.pattern)
        cv3s == (cv2s \cap {CvTrap}) \cup MutateBoundaries(cv2s \ {CvTrap}, options.boundaries)
    IN  {IF cv = CvTrap THEN TrapOutcome
         ELSE IF cv = CvPanic THEN PanicOutcome
         ELSE Outcome(RString(convert(cv, str)), cv, convert_words(cv, str))
         : cv \in cv3s}

\* a binding that keeps one Converter for all calls
js_mutate_str_shared(str, options) ==
    MutateFrom(IF prior = NoConv THEN Converter_new ELSE prior, str, options)

js_mutate_str(str, options) == MutateFrom(Converter_new, str, options)

(***************************************************************************)
(* listFrom                                                                *)
(***************************************************************************)
boundary_vec_to_array(vec) == [i \in 1..Len(vec) |-> CodeOfBoundary(vec[i])]

js_list_from(str) == {Outcome(RArray(boundary_vec_to_array(list_from(str))), NoConv, <<>>)}

(***************************************************************************)
(* The calls a host makes.                                                 *)
(***************************************************************************)
Options(d, p, b) == [delim |-> d, pattern |-> p, boundaries |-> b]
NoOptions == Options(JsUndefined, JsUndefined, JsUndefined)

ToCaseCall(s, c, f) ==
    [op |-> "toCase", input |-> s, case |-> JsNum(c), from |-> f, options |-> NoOptions]
IsCaseCall(s, c) ==
    [op |-> "isCase", input |-> s, case |-> JsNum(c), from |-> JsUndefined,
     options |-> NoOptions]
ListFromCall(s) ==
    [op |-> "listFrom", input |-> s, case |-> JsUndefined, from |-> JsUndefined,
     options |-> NoOptions]
MutateCall(s, d, p, b) ==
    [op |-> "mutate", input |-> s, case |-> JsUndefined, from |-> JsUndefined,
     options |-> Options(d, p, b)]

NoCall == [op |-> "none", input |-> <<>>, case |-> JsUndefined, from |-> JsUndefined,
           options |-> NoOptions]
NoFirst == [set |-> FALSE, call |-> NoCall, result |-> RNone]

CaseCodes == 0..(NumCases - 1)
PatternCodes == 0..(NumPatterns - 1)
BoundaryCodes == 0..(NumBoundaries - 1)
NumsOf(codes) == {JsNum(k) : k \in codes}
ArraysOf(elems, n) == {JsArr(a) : a \in StringsUpTo(elems, n)}
CodeOf(kinds, name) == (CHOOSE i \in 1..Len(kinds) : kinds[i] = name) - 1

CodeRange(n) == (-1)..n
CodeStrings == StringsUpTo({"a", "A"}, MaxCodeLen)
SeqStrings == StringsUpTo({"a", "A"}, MaxSeqLen)

(***************************************************************************)
(* The state machine: a call is made (pc = "called"), its handler runs to  *)
(* the end (pc = "returned").  conv and words are the configuration the    *)
(* handler consumed and the fragments it cut; prior is the configuration   *)
(* of the call before; first is the first call of the run and its result. *)
(***************************************************************************)
InitCall(c) ==
    /\ pc = "called"
    /\ call = c
    /\ result = RNone
    /\ conv = NoConv
    /\ words = <<>>
    /\ first = NoFirst
    /\ prior = NoConv

Return(outcomes) ==
    /\ \E o \in outcomes :
          /\ result' = o.res
          /\ conv' = o.conv
          /\ words' = o.words
    /\ pc' = "returned"
    /\ UNCHANGED <<call, first, prior>>

CaseConvert ==
    /\ pc = "called"
    /\ call.op = "toCase"
    /\ Return(js_case_convert(call.input, call.case, call.from))

IsCase ==
    /\ pc = "called"
    /\ call.op = "isCase"
    /\ Return(js_is_case(call.input, call.case))

MutateStr ==
    /\ pc = "called"
    /\ call.op = "mutate"
    /\ Return(js_mutate_str(call.input, call.options))

ListFrom ==
    /\ pc = "called"
    /\ call.op = "listFrom"
    /\ Return(js_list_from(call.input))

\* the next call of a sequence
SetCall(c) == call' = c
MakeSeqCall ==
    \E s \in SeqStrings :
        \/ \E f \in {JsUndefined, JsNum(CodeOf(CaseKinds, "Camel"))} :
              SetCall(ToCaseCall(s, CodeOf(CaseKinds, "Snake"), f))
        \/ SetCall(IsCaseCall(s, CodeOf(CaseKinds, "Snake")))
        \/ SetCall(ListFromCall(s))
        \/ SetCall(MutateCall(s, JsStr(<<".">>), JsUndefined, JsUndefined))
        \/ SetCall(MutateCall(s, JsUndefined, JsUndefined, JsArr(<<>>)))

\* the host makes its next call; the configuration of the last one is gone
NextCall ==
    /\ pc = "returned"
    /\ MakeSeqCall
    /\ pc' = "called"
    /\ first' = IF first.set THEN first ELSE [set |-> TRUE, call |-> call, result |-> result]
    /\ prior' = conv
    /\ result' = RNone
    /\ conv' = NoConv
    /\ words' = <<>>

\* every function with codes inside and outside the enums, and arrays with a non-number
Init ==
    \E s \in CodeStrings :
        \/ \E c \in CodeRange(NumCases), f \in {JsUndefined} \cup NumsOf(CodeRange(NumCases)) :
              InitCall(ToCaseCall(s, c, f))
        \/ \E c \in CodeRange(NumCases) : InitCall(IsCaseCall(s, c))
        \/ InitCall(ListFromCall(s))
        \/ \E d \in {JsUndefined, JsStr(<<".">>)},
              p \in {JsUndefined} \cup NumsOf(CodeRange(NumPatterns)),
              b \in {JsUndefined} \cup
                       ArraysOf({ElemNum(-1), ElemNum(CodeOf(BoundaryKinds, "LowerUpper")),
                                 ElemNum(NumBoundaries), ElemOther}, MaxBounds) :
              InitCall(MutateCall(s, d, p, b))
Next == CaseConvert \/ IsCase \/ MutateStr \/ ListFrom
Spec == Init /\ [][Next]_vars

\* toCase, isCase and listFrom with every known case code
InitConv ==
    \E s \in StringsUpTo(Alphabet, MaxLen) :
        \/ \E c \in CaseCodes, f \in {JsUndefined} \cup NumsOf(CaseCodes) :
              InitCall(ToCaseCall(s, c, f))
        \/ \E c \in CaseCodes : InitCall(IsCaseCall(s, c))
        \/ InitCall(ListFromCall(s))
NextConv == CaseConvert \/ IsCase \/ ListFrom
SpecConv == InitConv /\ [][NextConv]_vars

\* mutate: every list of known boundary codes, and every combination of absent fields
InitMutate ==
    \E s \in StringsUpTo(SegAlphabet, MaxMutLen) :
        \/ \E b \in ArraysOf({ElemNum(k) : k \in BoundaryCodes}, MaxBounds) :
              InitCall(MutateCall(s, JsStr(<<".">>), JsUndefined, b))
        \/ \E d \in {JsUndefined, JsStr(<<".">>)},
              p \in {JsUndefined, JsNum(CodeOf(PatternKinds, "Uppercase"))},
              b \in {JsUndefined, JsArr(<<>>),
                     JsArr(<<ElemNum(CodeOf(BoundaryKinds, "Hyphen"))>>)} :
              InitCall(MutateCall(s, d, p, b))
NextMutate == MutateStr
SpecMutate == InitMutate /\ [][NextMutate]_vars

\* the calls of a sequence of calls
InitSeq ==
    \E s \in SeqStrings :
        \/ \E f \in {JsUndefined, JsNum(CodeOf(CaseKinds, "Camel"))} :
              InitCall(ToCaseCall(s, CodeOf(CaseKinds, "Snake"), f))
        \/ InitCall(IsCaseCall(s, CodeOf(CaseKinds, "Snake")))
        \/ InitCall(ListFromCall(s))
        \/ InitCall(MutateCall(s, JsStr(<<".">>), JsUndefined, JsUndefined))
        \/ InitCall(MutateCall(s, JsUndefined, JsUndefined, JsArr(<<>>)))
NextSeq == CaseConvert \/ IsCase \/ MutateStr \/ ListFrom \/ NextCall
SpecSeq == InitSeq /\ [][NextSeq]_vars

(***************************************************************************)
(* The claims.                                                             *)
(***************************************************************************)
Returned(op) == pc = "returned" /\ call.op = op

Snake == CodeOf(CaseKinds, "Snake")
Title == CodeOf(CaseKinds, "Title")
Kebab == CodeOf(CaseKinds, "Kebab")
Hyphen == CodeOf(BoundaryKinds, "Hyphen")
LetterDigit == CodeOf(BoundaryKinds, "LetterDigit")

\* the boundary kinds a boundaries array lists; every kind when there is no array
ListedBoundaries(jb) ==
    IF jb.t = "array"
    THEN {BoundaryOfCode(jb.a[i].n) : i \in 1..Len(jb.a)}
    ELSE Boundary_all

HasInvalidCode(c) ==
    \/ c.op \in {"toCase", "isCase"} /\ c.case.n \notin CaseCodes
    \/ c.op = "toCase" /\ c.from.t = "number" /\ c.from.n \notin CaseCodes
    \/ c.op = "mutate" /\ c.options.pattern.t = "number" /\ c.options.pattern.n \notin PatternCodes
    \/ /\ c.op = "mutate"
       /\ c.options.boundaries.t = "array"
       /\ \E i \in 1..Len(c.options.boundaries.a) :
             /\ c.options.boundaries.a[i].t = "number"
             /\ c.options.boundaries.a[i].n \notin BoundaryCodes

\* C1: a call of toCase, isCase or mutate with a case, pattern or boundary code
\* outside its enum returns the InvalidEnumCode error and no conversion result.
C1_InvalidCodeRejected ==
    (pc = "returned" /\ HasInvalidCode(call)) => result = RInvalidEnumCode

Delimited(c) == Case_delim(CaseOfCode(c.n)) # <<>>

C5_BoundariesReplaceDefault ==
    Returned("mutate") =>
        /\ conv.boundaries = ListedBoundaries(call.options.boundaries)
        /\ words = segment(call.input, ListedBoundaries(call.options.boundaries))

C5_Witness ==
    /\ Returned("mutate")
    /\ call.options.boundaries = JsArr(<<ElemNum(Hyphen)>>)
    /\ call.input = <<"a", "A", "-", "1">>
    /\ conv.boundaries = {"Hyphen"}
    /\ words = << <<"a", "A">>, <<"1">> >>

\* C6: toCase segments with fromCase's boundary set when a fromCase is given and
\* with the full default set otherwise; either way it formats with the target's
\* pattern and joins with the target's delimiter.
C6_FromCaseOnlySegments ==
    Returned("toCase") =>
        LET target == CaseOfCode(call.case.n)
            B == IF call.from.t = "number"
                 THEN Case_boundaries(CaseOfCode(call.from.n))
                 ELSE Boundary_all
        IN  /\ words = segment(call.input, B)
            /\ conv.pattern = Case_pattern(target)
            /\ conv.delim = Case_delim(target)
            /\ result = RString(join(pattern_apply(Case_pattern(target), words),
                                     Case_delim(target)))

C6_Witness ==
    /\ Returned("toCase")
    /\ call.from = JsNum(Snake)
    /\ call.case = JsNum(Kebab)
    /\ call.input = <<"a", "A", "_">>
    /\ words = << <<"a", "A">> >>
    /\ result = RString(<<"a", "a">>)

\* C7: mutate returns a string whichever of delim, pattern and boundaries are
\* missing; a missing field leaves its default (no delimiter, no pattern, the
\* full default boundary set) and the fields that are there are applied.
C7_MissingFieldsKeepDefaults ==
    Returned("mutate") =>
        LET o == call.options
            d == IF o.delim.t = "string" THEN o.delim.s ELSE <<>>
            p == IF o.pattern.t = "number" THEN PatternOfCode(o.pattern.n) ELSE "None"
        IN  /\ conv.delim = d
            /\ conv.pattern = p
            /\ o.boundaries.t # "array" => conv.boundaries = Boundary_all
            /\ result = RString(join(pattern_apply(p, words), d))

C7_Witness ==
    /\ Returned("mutate")
    /\ call.options.delim = JsUndefined
    /\ call.options.boundaries = JsUndefined
    /\ call.options.pattern.t = "number"
    /\ call.input = <<"a", "A", "1">>
    /\ result = RString(<<"A", "A", "1">>)

Concat(ws) == join(ws, <<>>)
WithoutActiveDelims(s, B) == SelectSeq(s, LAMBDA ch : ~IsActiveDelim(ch, B))

\* C9: for every input and every active boundary set, the fragments, concatenated
\* in order and case-folded, are the case-folded input without the delimiter
\* characters of the active boundaries.
C9_SegmentationComplete ==
    Returned("mutate") =>
        to_lowercase(Concat(words)) =
            to_lowercase(WithoutActiveDelims(call.input,
                                             ListedBoundaries(call.options.boundaries)))

C9_Witness ==
    /\ Returned("mutate")
    /\ call.options.boundaries = JsArr(<<ElemNum(Hyphen), ElemNum(LetterDigit)>>)
    /\ call.input = <<"a", "-", "A", "1">>
    /\ words = << <<"a">>, <<"A">>, <<"1">> >>

\* C10: no fragment is empty, whatever the input and the active boundary set: a
\* run of delimiters cuts once, leading and trailing delimiters leave no fragment,
\* and the empty input has no fragment.
C10_NoEmptyFragment ==
    Returned("mutate") =>
        /\ \A i \in 1..Len(words) : words[i] # <<>>
        /\ call.input = <<>> => words = <<>>

C10_Witness ==
    /\ Returned("mutate")
    /\ call.options.boundaries = JsArr(<<ElemNum(Hyphen)>>)
    /\ call.input = <<"a", "-", "-", "A">>
    /\ words = << <<"a">>, <<"A">> >>

====
